---- MODULE Spec2Model ----
(***************************************************************************)
(* CodeIndexGeminiEmbedder (src/services/code-index/embedders/gemini.ts).  *)
(*                                                                         *)
(* JavaScript values are records tagged by t.  A JavaScript string is a    *)
(* sequence of text fragments, so that the concatenation a template        *)
(* literal performs is \o and "begins with" / "contains" are questions     *)
(* about subsequences.  A createEmbeddings invocation is an async function *)
(* with one suspension point, the await of client.models.embedContent:     *)
(* one action runs it up to the await, one action per way the awaited      *)
(* promise settles runs it to completion.                                  *)
(***************************************************************************)
EXTENDS Integers, Sequences, FiniteSets, TLC

\* ---------------------------------------------------------------- bounds
MaxTexts == 2
MaxEmbeddings == 3
NumCalls == 2

Calls == 1..NumCalls

\* ------------------------------------------------------ JavaScript values
Undefined == [t |-> "undefined"]
Null == [t |-> "null"]
Str(s) == [t |-> "string", s |-> s]
Num(n) == [t |-> "number", n |-> n]
Arr(a) == [t |-> "array", a |-> a]

\* new Error(message): a fresh object with the message and nothing else
\* (no cause, none of the properties of the error it was made from).
NewError(message) ==
    [t |-> "Error", name |-> "Error", message |-> message, status |-> Undefined]

\* What the runtime throws on a property read of null or undefined.
TypeErrorOnRead(v, prop) ==
    [t |-> "Error", name |-> "TypeError",
     message |-> <<"Cannot read properties of ", v.t, " (reading '", prop, "')">>,
     status |-> Undefined]

\* An error of the provider's client: an Error carrying a property of its own.
ApiError(message, status) ==
    [t |-> "Error", name |-> "Error", message |-> message, status |-> Num(status)]

\* error instanceof Error
InstanceOfError(v) == v.t = "Error"

\* a || b : a when a is truthy, else b (undefined, null and "" are falsy).
Truthy(v) ==
    CASE v.t = "undefined" -> FALSE
      [] v.t = "null" -> FALSE
      [] v.t = "string" -> v.s # <<>>
      [] OTHER -> TRUE

LogicalOrNullish(a, b) == IF a.t \in {"undefined", "null"} THEN b ELSE a

LogicalOr(a, b) == IF Truthy(a) THEN a ELSE b

\* ${v} inside a template literal, for the values error.message can be here.
TemplateString(v) ==
    CASE v.t = "string" -> v.s
      [] v.t = "undefined" -> <<"undefined">>
      [] v.t = "null" -> <<"null">>
      [] v.t = "number" -> <<"<number>">>
      [] OTHER -> <<"[object Object]">>

\* A completion of a block of code: it returns v or throws v.
Return(v) == [c |-> "return", v |-> v]
Throw(v) == [c |-> "throw", v |-> v]

\* error.message : a TypeError on null and undefined, undefined on a string,
\* the property on an object.
ReadMessage(v) ==
    CASE v.t \in {"undefined", "null"} -> Throw(TypeErrorOnRead(v, "message"))
      [] v.t = "Error" -> Return(Str(v.message))
      [] v.t = "object" -> Return(v.message)
      [] OTHER -> Return(Undefined)

\* ------------------------------------------------------------- literals
DEFAULT_MODEL_ID == Str(<<"gemini-embedding-exp-03-07">>)
DEFAULT_TASK_TYPE == Str(<<"CODE_RETRIEVAL_QUERY">>)
OUTER_PREFIX == <<"Gemini embedding failed:", " ">>
INNER_PREFIX == <<"Gemini embeddings error:", " ">>
NO_EMBEDDINGS == <<"No embeddings returned", " from Gemini API">>

VARIABLES
    options,          \* the ApiHandlerOptions the constructor was given
    defaultModelId,   \* this.defaultModelId
    defaultTaskType,  \* this.defaultTaskType
    pc,               \* per invocation: "idle", "awaiting", "settled"
    args,             \* per invocation: the arguments of createEmbeddings
    outbound,         \* the calls client.models.embedContent received, in order
    provided,         \* per invocation: how its embedContent promise settled
    settled,          \* per invocation: how its createEmbeddings promise settled
    console           \* the values handed to console.error, in order

vars == <<options, defaultModelId, defaultTaskType, pc, args, outbound,
          provided, settled, console>>

\* ------------------------------------------------------------ constructor
\* this.defaultModelId = options.apiModelId || "gemini-embedding-exp-03-07"
ResolveDefaultModelId(opts) == LogicalOr(opts.apiModelId, DEFAULT_MODEL_ID)

\* this.defaultTaskType = options.geminiEmbeddingTaskType || "CODE_RETRIEVAL_QUERY"
ResolveDefaultTaskType(opts) == LogicalOr(opts.geminiEmbeddingTaskType, DEFAULT_TASK_TYPE)

\* ----------------------------------------------------- generateEmbeddings
\* The default of the parameter taskType applies when the argument is undefined.
TaskTypeParameter(taskType) ==
    IF taskType.t = "undefined" THEN DEFAULT_TASK_TYPE ELSE taskType

\* Variant: createEmbeddings leaves the taskType argument out, so the
\* parameter's default applies.
TaskTypeArgumentOmitted(dfltTaskType) == Undefined

\* The argument createEmbeddings passes for taskType.
TaskTypeArgument(dfltTaskType) == dfltTaskType

\* Variant: model ?? this.defaultModelId, which lets "" through.
ResolveModelIdNullish(model, dfltModelId) == LogicalOrNullish(model, dfltModelId)

\* const modelId = model || this.defaultModelId
ResolveModelId(model, dfltModelId) == LogicalOr(model, dfltModelId)

\* The argument of this.client.models.embedContent.
EmbedContentRequest(texts, model, taskType, dfltModelId) ==
    [model |-> ResolveModelId(model, dfltModelId),
     contents |-> texts,
     config |-> [taskType |-> TaskTypeParameter(taskType)]]

\* embedding?.values
ValuesOf(embedding) ==
    IF embedding.t \in {"undefined", "null"} THEN Undefined ELSE embedding.values

\* Variant: only values !== undefined, which keeps empty vectors.
KeepValuesDefined(values) == values.t # "undefined"

\* values !== undefined && values.length > 0
KeepValues(values) == values.t # "undefined" /\ Len(values.a) > 0

\* Variant: flatMap in place of map, which splices the vectors' numbers into
\* the result.
RECURSIVE NormalizeEmbeddingsFlat(_)
NormalizeEmbeddingsFlat(embeddings) ==
    IF embeddings = <<>> THEN <<>>
    ELSE LET values == ValuesOf(Head(embeddings))
         IN  (IF values.t = "undefined" THEN <<>> ELSE values.a)
                 \o NormalizeEmbeddingsFlat(Tail(embeddings))

\* response.embeddings.map(...).filter(...) as number[][]
NormalizeEmbeddings(embeddings) ==
    LET mapped == [k \in 1..Len(embeddings) |-> ValuesOf(embeddings[k])]
        kept == SelectSeq(mapped, KeepValues)
    IN  [k \in 1..Len(kept) |-> kept[k].a]

\* Variant: no test of response.embeddings, so .map is read off undefined.
GenerateEmbeddingsTryUnchecked(awaited) ==
    IF awaited.c = "throw" THEN awaited
    ELSE IF awaited.v.embeddings.t \in {"undefined", "null"}
         THEN Throw(TypeErrorOnRead(awaited.v.embeddings, "map"))
    ELSE Return([embeddings |-> NormalizeEmbeddings(awaited.v.embeddings.a)])

\* The try block after the await: `awaited` is how embedContent settled.
GenerateEmbeddingsTry(awaited) ==
    IF awaited.c = "throw" THEN awaited
    ELSE IF ~Truthy(awaited.v.embeddings) THEN Throw(NewError(NO_EMBEDDINGS))
    ELSE Return([embeddings |-> NormalizeEmbeddings(awaited.v.embeddings.a)])

\* Variant: the inner catch block rethrows what it caught.
GenerateEmbeddingsCatchRethrow(error) == Throw(error)

\* The catch block of generateEmbeddings.
GenerateEmbeddingsCatch(error) ==
    IF InstanceOfError(error)
    THEN Throw(NewError(INNER_PREFIX \o error.message))
    ELSE Throw(error)

GenerateEmbeddings(awaited) ==
    LET tried == GenerateEmbeddingsTry(awaited)
    IN  IF tried.c = "throw" THEN GenerateEmbeddingsCatch(tried.v) ELSE tried

\* ------------------------------------------------------- createEmbeddings
\* result.usage : undefined when the object has no such property.
UsageOf(result) == IF "usage" \in DOMAIN result THEN result.usage ELSE Undefined

\* return { embeddings: result.embeddings, usage: result.usage }
CreateEmbeddingsReturn(result) ==
    [embeddings |-> result.embeddings, usage |-> UsageOf(result)]

\* throw new Error(`Gemini embedding failed: ${error.message}`)
CreateEmbeddingsCatch(error) ==
    LET message == ReadMessage(error)
    IN  IF message.c = "throw" THEN message
        ELSE Throw(NewError(OUTER_PREFIX \o TemplateString(message.v)))

\* createEmbeddings from the await on: how its promise settles.
CreateEmbeddingsSettle(awaited) ==
    LET result == GenerateEmbeddings(awaited)
    IN  IF result.c = "throw" THEN CreateEmbeddingsCatch(result.v)
        ELSE Return(CreateEmbeddingsReturn(result.v))

\* console.error("Gemini embedding failed:", error) runs first in the catch block.
ConsoleAfter(log, awaited) ==
    LET result == GenerateEmbeddings(awaited)
    IN  IF result.c = "throw" THEN Append(log, result.v) ELSE log

\* ------------------------------------------------------------ environment
SeqsUpTo(S, n) == UNION {[1..k -> S] : k \in 0..n}

\* Constructor options: each of the two settings absent, empty or set.
OptionValues ==
    [apiModelId : {Undefined, Str(<<>>), Str(<<"text-embedding-004">>)},
     geminiEmbeddingTaskType : {Undefined, Str(<<>>), Str(<<"RETRIEVAL_DOCUMENT">>)}]

TextValues == {"foo", "bar"}
TextsInputs == SeqsUpTo(TextValues, MaxTexts) \ {<<>>}
ModelInputs == {Undefined, Str(<<>>), Str(<<"gemini-embedding-001">>)}

\* One entry of response.embeddings: missing, without values, with an empty
\* vector, or with a vector.
EmbeddingEntries ==
    {Undefined,
     [t |-> "object", values |-> Undefined],
     [t |-> "object", values |-> Arr(<<>>)],
     [t |-> "object", values |-> Arr(<<1, 2>>)],
     [t |-> "object", values |-> Arr(<<3>>)]}

UsageValues == {Undefined, [t |-> "object", promptTokens |-> 5, totalTokens |-> 5]}

ProviderResponses ==
    [embeddings : {Undefined, Null} \cup {Arr(e) : e \in SeqsUpTo(EmbeddingEntries, MaxEmbeddings)},
     usage : UsageValues]

\* What embedContent can throw: Errors, and values that are no Error.
ProviderThrows ==
    {ApiError(<<"rate limited">>, 429),
     NewError(<<>>),
     [t |-> "object", message |-> Str(<<"quota exceeded">>)],
     Str(<<"network down">>),
     Null,
     Undefined}

\* ---------------------------------------------------------------- actions
Init ==
    /\ options \in OptionValues
    /\ defaultModelId = ResolveDefaultModelId(options)
    /\ defaultTaskType = ResolveDefaultTaskType(options)
    /\ pc = [i \in Calls |-> "idle"]
    /\ args = [i \in Calls |-> Undefined]
    /\ outbound = <<>>
    /\ provided = [i \in Calls |-> Undefined]
    /\ settled = [i \in Calls |-> Undefined]
    /\ console = <<>>

\* Variant: one embedContent call per text.
CreateEmbeddingsPerText(i, texts, model) ==
    /\ pc[i] = "idle"
    /\ args' = [args EXCEPT ![i] = [texts |-> texts, model |-> model]]
    /\ outbound' = outbound \o
            [k \in 1..Len(texts) |->
                [call |-> i,
                 request |-> EmbedContentRequest(<<texts[k]>>, model,
                                 TaskTypeArgument(defaultTaskType), defaultModelId)]]
    /\ pc' = [pc EXCEPT ![i] = "awaiting"]
    /\ UNCHANGED <<options, defaultModelId, defaultTaskType, provided, settled, console>>

\* Variant: the resolved model id is kept in this.defaultModelId.
CreateEmbeddingsRemembering(i, texts, model) ==
    /\ pc[i] = "idle"
    /\ args' = [args EXCEPT ![i] = [texts |-> texts, model |-> model]]
    /\ outbound' = Append(outbound,
            [call |-> i,
             request |-> EmbedContentRequest(texts, model,
                             TaskTypeArgument(defaultTaskType), defaultModelId)])
    /\ defaultModelId' = ResolveModelId(model, defaultModelId)
    /\ pc' = [pc EXCEPT ![i] = "awaiting"]
    /\ UNCHANGED <<options, defaultTaskType, provided, settled, console>>

\* createEmbeddings(texts, model) up to the await of embedContent.
CreateEmbeddings(i, texts, model) ==
    /\ pc[i] = "idle"
    /\ args' = [args EXCEPT ![i] = [texts |-> texts, model |-> model]]
    /\ outbound' = Append(outbound,
            [call |-> i,
             request |-> EmbedContentRequest(texts, model,
                             TaskTypeArgument(defaultTaskType), defaultModelId)])
    /\ pc' = [pc EXCEPT ![i] = "awaiting"]
    /\ UNCHANGED <<options, defaultModelId, defaultTaskType, provided, settled, console>>

\* embedContent returns a response: generateEmbeddings and createEmbeddings
\* run to their ends.
EmbedContentResolves(i, response) ==
    /\ pc[i] = "awaiting"
    /\ provided' = [provided EXCEPT ![i] = Return(response)]
    /\ settled' = [settled EXCEPT ![i] = CreateEmbeddingsSettle(Return(response))]
    /\ console' = ConsoleAfter(console, Return(response))
    /\ pc' = [pc EXCEPT ![i] = "settled"]
    /\ UNCHANGED <<options, defaultModelId, defaultTaskType, args, outbound>>

\* embedContent throws: both catch blocks run.
EmbedContentRejects(i, thrown) ==
    /\ pc[i] = "awaiting"
    /\ provided' = [provided EXCEPT ![i] = Throw(thrown)]
    /\ settled' = [settled EXCEPT ![i] = CreateEmbeddingsSettle(Throw(thrown))]
    /\ console' = ConsoleAfter(console, Throw(thrown))
    /\ pc' = [pc EXCEPT ![i] = "settled"]
    /\ UNCHANGED <<options, defaultModelId, defaultTaskType, args, outbound>>

\* get embedderInfo()
EmbedderInfo == [name |-> "gemini"]

\* One invocation, every input.
Next ==
    \/ \E texts \in TextsInputs, model \in ModelInputs : CreateEmbeddings(1, texts, model)
    \/ \E response \in ProviderResponses : EmbedContentResolves(1, response)
    \/ \E thrown \in ProviderThrows : EmbedContentRejects(1, thrown)

Spec == Init /\ [][Next]_vars

\* Concurrent invocations on one adapter, every interleaving, fewer inputs.
ConcurrentTexts == {<<"foo">>, <<"foo", "bar">>}
ConcurrentModels == {Undefined, Str(<<"gemini-embedding-001">>)}
ConcurrentResponses ==
    {[embeddings |-> Arr(<<[t |-> "object", values |-> Arr(<<1, 2>>)], Undefined>>),
      usage |-> Undefined],
     [embeddings |-> Undefined, usage |-> Undefined]}
ConcurrentThrows == {ApiError(<<"rate limited">>, 429)}

NextConcurrent ==
    \E i \in Calls :
        \/ \E texts \in ConcurrentTexts, model \in ConcurrentModels :
               CreateEmbeddings(i, texts, model)
        \/ \E response \in ConcurrentResponses : EmbedContentResolves(i, response)
        \/ \E thrown \in ConcurrentThrows : EmbedContentRejects(i, thrown)

SpecConcurrent == Init /\ [][NextConcurrent]_vars

\* ----------------------------------------------------------- properties
StartsWith(s, p) == Len(s) >= Len(p) /\ SubSeq(s, 1, Len(p)) = p
Contains(s, p) == \E k \in 0..(Len(s) - Len(p)) : SubSeq(s, k + 1, k + Len(p)) = p

Settled(i) == pc[i] = "settled"
Fulfilled(i) == Settled(i) /\ settled[i].c = "return"
Rejected(i) == Settled(i) /\ settled[i].c = "throw"

\* The embedContent calls invocation i made, in order.
RequestsOf(i) == SelectSeq(outbound, LAMBDA r : r.call = i)

NonEmptyString(v) == v.t = "string" /\ Len(v.s) > 0
NoEmbeddingsField(i) ==
    provided[i].c = "return" /\ provided[i].v.embeddings.t \in {"undefined", "null"}

\* The generation step of invocation i failed: embedContent threw, or its
\* response has no embeddings field.
GenerationFailed(i) == Settled(i) /\ (provided[i].c = "throw" \/ NoEmbeddingsField(i))

\* C1: whenever the generation step fails (the provider throws an Error, throws
\* a value that is no Error such as a string, null or undefined, or answers
\* without an embeddings field), createEmbeddings rejects with an Error whose
\* message begins with "Gemini embedding failed: ".
C1_RejectsWithOuterPrefix ==
    \A i \in Calls :
        GenerationFailed(i) =>
            /\ Rejected(i)
            /\ settled[i].v.t = "Error"
            /\ StartsWith(settled[i].v.message, OUTER_PREFIX)

\* C2: when the provider call succeeds and the provider gave token-usage
\* counts, the resolved response carries a usage field equal to them.
C2_UsageAsGiven ==
    \A i \in Calls :
        (Fulfilled(i) /\ provided[i].v.usage # Undefined) =>
            settled[i].v.usage = provided[i].v.usage

\* C3 as stated: for every non-empty texts and every provider response, a
\* resolved call returns at most as many embeddings as there are texts.
C3_AtMostTexts ==
    \A i \in Calls :
        Fulfilled(i) => Len(settled[i].v.embeddings) <= Len(args[i].texts)

\* C3 amended: a resolved call returns at most as many embeddings as the
\* provider's response has entries, hence at most as many as there are texts
\* whenever the provider returns no more entries than texts.
C3_AtMostProvided ==
    \A i \in Calls :
        Fulfilled(i) =>
            /\ Len(settled[i].v.embeddings) <= Len(provided[i].v.embeddings.a)
            /\ (Len(provided[i].v.embeddings.a) <= Len(args[i].texts) =>
                    Len(settled[i].v.embeddings) <= Len(args[i].texts))

\* A resolved call that dropped an entry and returned fewer vectors than texts.
C3_Witness ==
    /\ Fulfilled(1)
    /\ Len(args[1].texts) = 2
    /\ Len(provided[1].v.embeddings.a) = 2
    /\ Len(settled[1].v.embeddings) = 1

\* An entry of the provider's response with a vector of length > 0.
HasVector(e) == e.t = "object" /\ e.values.t = "array" /\ e.values.a # <<>>

\* The vectors of the entries that have one, in the entries' order.
RECURSIVE VectorsOf(_)
VectorsOf(entries) ==
    IF entries = <<>> THEN <<>>
    ELSE (IF HasVector(Head(entries)) THEN <<Head(entries).values.a>> ELSE <<>>)
             \o VectorsOf(Tail(entries))

\* C4: a call whose provider response has an embeddings field resolves, with
\* exactly the provider's vectors in the provider's order, less the entries
\* that are missing, have no vector or have a vector of length zero.
C4_ExactlyTheValidVectors ==
    \A i \in Calls :
        /\ Fulfilled(i) =>
               settled[i].v.embeddings = VectorsOf(provided[i].v.embeddings.a)
        /\ (Settled(i) /\ provided[i].c = "return" /\ provided[i].v.embeddings.t = "array") =>
               Fulfilled(i)

\* Two texts, a vector for the first and an undefined second entry: the call
\* resolves with exactly that one vector.
C4_Witness ==
    /\ Fulfilled(1)
    /\ args[1].texts = <<"foo", "bar">>
    /\ provided[1].v.embeddings = Arr(<<[t |-> "object", values |-> Arr(<<1, 2>>)], Undefined>>)
    /\ settled[1].v.embeddings = << <<1, 2>> >>

\* C5 as stated: the model id of the outbound request is the per-call override
\* whenever one is supplied (whatever string it is), otherwise the model id
\* configured at construction, otherwise "gemini-embedding-exp-03-07".
C5_ModelIdAnyOverride ==
    \A i \in Calls :
        pc[i] # "idle" =>
            \A k \in 1..Len(RequestsOf(i)) :
                RequestsOf(i)[k].request.model =
                    IF args[i].model.t = "string" THEN args[i].model
                    ELSE IF options.apiModelId.t = "string" THEN options.apiModelId
                    ELSE Str(<<"gemini-embedding-exp-03-07">>)

\* C5 amended: the model id of the outbound request is the per-call override
\* when a non-empty one is supplied, otherwise the non-empty model id
\* configured at construction, otherwise "gemini-embedding-exp-03-07".
C5_ModelIdNonEmptyOverride ==
    \A i \in Calls :
        pc[i] # "idle" =>
            /\ Len(RequestsOf(i)) > 0
            /\ \A k \in 1..Len(RequestsOf(i)) :
                RequestsOf(i)[k].request.model =
                    IF NonEmptyString(args[i].model) THEN args[i].model
                    ELSE IF NonEmptyString(options.apiModelId) THEN options.apiModelId
                    ELSE Str(<<"gemini-embedding-exp-03-07">>)

\* An empty override on an adapter configured with a model id: the configured
\* id is sent.
C5_Witness ==
    /\ pc[1] # "idle"
    /\ args[1].model = Str(<<>>)
    /\ options.apiModelId = Str(<<"text-embedding-004">>)
    /\ RequestsOf(1)[1].request.model = Str(<<"text-embedding-004">>)

\* C6: when the provider call throws an Error with message m, createEmbeddings
\* rejects with a new Error whose message is the outer prefix, then the inner
\* prefix, then m; nothing of the original error but its message is in it.
C6_StackedPrefixes ==
    \A i \in Calls :
        (Settled(i) /\ provided[i].c = "throw" /\ provided[i].v.t = "Error") =>
            /\ Rejected(i)
            /\ settled[i].v.t = "Error"
            /\ settled[i].v.name = "Error"
            /\ settled[i].v.message =
                   <<"Gemini embedding failed:", " ", "Gemini embeddings error:", " ">>
                       \o provided[i].v.message
            /\ Contains(settled[i].v.message, <<"Gemini embedding failed:">>)
            /\ Contains(settled[i].v.message,
                        <<"Gemini embeddings error:", " ">> \o provided[i].v.message)
            /\ settled[i].v.status = Undefined

\* The provider threw "rate limited" with a status of its own.
C6_Witness ==
    /\ Rejected(1)
    /\ provided[1] = Throw(ApiError(<<"rate limited">>, 429))
    /\ settled[1].v.message =
           <<"Gemini embedding failed:", " ", "Gemini embeddings error:", " ", "rate limited">>

\* C7: a provider response without an embeddings field never resolves: the
\* call rejects with an Error whose message contains "No embeddings returned",
\* under the same two prefixes as a failure of the provider call.
C7_NoEmbeddingsRejected ==
    \A i \in Calls :
        (Settled(i) /\ NoEmbeddingsField(i)) =>
            /\ Rejected(i)
            /\ settled[i].v.t = "Error"
            /\ Contains(settled[i].v.message, <<"No embeddings returned">>)
            /\ StartsWith(settled[i].v.message,
                          <<"Gemini embedding failed:", " ", "Gemini embeddings error:", " ">>)

\* A response whose embeddings field is undefined, rejected.
C7_Witness ==
    /\ Rejected(1)
    /\ provided[1].c = "return"
    /\ provided[1].v.embeddings = Undefined
    /\ Contains(settled[1].v.message, <<"No embeddings returned">>)

\* C8: an invocation makes exactly one embedContent call, from its start to
\* after it has settled either way, and the call carries the whole texts
\* sequence.
C8_OneOutboundCall ==
    \A i \in Calls :
        /\ pc[i] = "idle" => Len(RequestsOf(i)) = 0
        /\ pc[i] # "idle" =>
               /\ Len(RequestsOf(i)) = 1
               /\ RequestsOf(i)[1].request.contents = args[i].texts

\* A rejected call with two texts: its one request carries both.
C8_Witness ==
    /\ Rejected(1)
    /\ Len(args[1].texts) = 2
    /\ Len(outbound) = 1
    /\ outbound[1].request.contents = args[1].texts

\* C9: the task type of the outbound request is the one configured at
\* construction (a non-empty string), else "CODE_RETRIEVAL_QUERY"; it is the
\* same whatever the arguments of createEmbeddings are.
C9_TaskTypeFromConfiguration ==
    \A i \in Calls :
        pc[i] # "idle" =>
            /\ Len(RequestsOf(i)) > 0
            /\ \A k \in 1..Len(RequestsOf(i)) :
                RequestsOf(i)[k].request.config.taskType =
                    IF NonEmptyString(options.geminiEmbeddingTaskType)
                    THEN options.geminiEmbeddingTaskType
                    ELSE Str(<<"CODE_RETRIEVAL_QUERY">>)

\* A call with a model override on an adapter configured with a task type.
C9_Witness ==
    /\ pc[1] # "idle"
    /\ NonEmptyString(args[1].model)
    /\ options.geminiEmbeddingTaskType = Str(<<"RETRIEVAL_DOCUMENT">>)
    /\ outbound[1].request.config.taskType = Str(<<"RETRIEVAL_DOCUMENT">>)

\* C10: under every interleaving of concurrent invocations the configuration
\* stays what the constructor resolved, each invocation has its own single
\* request, fixed by its own arguments and the configuration, and invocations
\* with the same provider outcome settle the same way.
C10_Independent ==
    /\ defaultModelId =
           (IF NonEmptyString(options.apiModelId) THEN options.apiModelId
            ELSE Str(<<"gemini-embedding-exp-03-07">>))
    /\ defaultTaskType =
           (IF NonEmptyString(options.geminiEmbeddingTaskType)
            THEN options.geminiEmbeddingTaskType
            ELSE Str(<<"CODE_RETRIEVAL_QUERY">>))
    /\ \A i \in Calls :
           pc[i] # "idle" =>
               RequestsOf(i) =
                   << [call |-> i,
                       request |->
                           [model |-> IF NonEmptyString(args[i].model) THEN args[i].model
                                      ELSE IF NonEmptyString(options.apiModelId)
                                           THEN options.apiModelId
                                      ELSE Str(<<"gemini-embedding-exp-03-07">>),
                            contents |-> args[i].texts,
                            config |->
                                [taskType |->
                                    IF NonEmptyString(options.geminiEmbeddingTaskType)
                                    THEN options.geminiEmbeddingTaskType
                                    ELSE Str(<<"CODE_RETRIEVAL_QUERY">>)]]] >>
    /\ \A i, j \in Calls :
           (Settled(i) /\ Settled(j) /\ provided[i] = provided[j]) =>
               settled[i] = settled[j]

\* Invocation 2 started after invocation 1 with other arguments and settled
\* while invocation 1 was still suspended.
C10_Witness ==
    /\ Len(outbound) >= 2
    /\ outbound[1].call = 1
    /\ outbound[2].call = 2
    /\ args[1].model # args[2].model
    /\ pc[1] = "awaiting"
    /\ Rejected(2)

====
